---- MODULE Spec2Model ----
(***************************************************************************)
(* A model of mlfqsim, the 3-level MLFQ teaching simulator: the intrusive  *)
(* run queues L0/L1/L2, process creation from the command string, the      *)
(* per-tick dispatch / exit / round-robin / demotion step and the tick     *)
(* driver of main.                                                         *)
(*                                                                         *)
(* A pointer to a proc_t is modelled by the pid of the process it points   *)
(* to (pids are unique: next_pid++), the null pointer by NULL.  The heap   *)
(* is the function proc, whose domain is the set of allocated processes:   *)
(* calloc adds a pid to the domain and free removes it.                    *)
(***************************************************************************)
EXTENDS Integers, Sequences, FiniteSets, TLC

VARIABLES
  cmd,       \* the command string handed to userinit_spin, a sequence of characters
  s,         \* userinit_spin's cursor into cmd (1-based; Len(cmd)+1 is the NUL)
  next_pid,  \* the pid allocator
  proc,      \* the heap: pid -> [name, work_left, ticks_left, level, next]
  head,      \* head[q], q in {L0, L1, L2}: queue_t.head
  tail,      \* tail[q]: queue_t.tail
  pc,        \* position of the single thread of control
  p,         \* schedule_one_tick's local p (the dispatched process)
  qid,       \* schedule_one_tick's local qid
  idle,      \* main's consecutive-idle counter
  ticks,     \* main's total tick counter
  out        \* stdout: the sequence of trace lines printed so far

vars == <<cmd, s, next_pid, proc, head, tail, pc, p, qid, idle, ticks, out>>

-----------------------------------------------------------------------------
(* Program constants *)

TICK_MS == 10
Q_L0 == 1
Q_L1 == 2
Q_L2 == 4
L0 == 0
L1 == 1
L2 == 2
NULL == 0
NOQ == -1
IdleLimit == 10

(* Bounds of the model *)

\* The safety cap of main (100000 in the program), scaled down so that runs
\* that hit the cap and runs that end by quiescence are both explored.
TickCap == 20
\* The largest number of spin commands in a generated command string.
MaxProcs == 3
\* The work amounts (ms) a generated spin command may carry.
WorkAmounts == {0, 5, 10, 20, 30, 40, 80}

Queues == {L0, L1, L2}
NUL == "\\0"

-----------------------------------------------------------------------------
(* Command strings *)

DigitChars == <<"0", "1", "2", "3", "4", "5", "6", "7", "8", "9">>

RECURSIVE Decimal(_)
\* The decimal numeral of n >= 0, as a sequence of characters.
Decimal(n) ==
  IF n < 10 THEN <<DigitChars[n + 1]>>
  ELSE Decimal(n \div 10) \o <<DigitChars[(n % 10) + 1]>>

SpinCmd(ms) == <<"s", "p", "i", "n", " ">> \o Decimal(ms) \o <<" ", "&", ";">>

RECURSIVE Render(_)
\* "spin a &; spin b &; spin c &;", the shape of the default command line.
Render(works) ==
  IF works = <<>> THEN <<>>
  ELSE IF Len(works) = 1 THEN SpinCmd(works[1])
  ELSE SpinCmd(works[1]) \o <<" ">> \o Render(Tail(works))

DefaultCmdline == Render(<<10000, 200000, 3000000>>)

WorkLists == UNION {[1..n -> WorkAmounts] : n \in 0..MaxProcs}

CmdLines == {Render(w) : w \in WorkLists} \cup {DefaultCmdline}

-----------------------------------------------------------------------------
(* userinit_spin's scanning primitives *)

\* *s for s a cursor into str: the NUL once the cursor is at the end.
CharAt(str, i) == IF i >= 1 /\ i <= Len(str) THEN str[i] ELSE NUL

IsDigit(c) == \E d \in 1..10 : DigitChars[d] = c

DigitVal(c) == (CHOOSE d \in 1..10 : DigitChars[d] = c) - 1

RECURSIVE SkipSep(_, _)
SkipSep(str, i) ==
  IF CharAt(str, i) \in {" ", "\t", ";", "&"} THEN SkipSep(str, i + 1) ELSE i

RECURSIVE SkipWs(_, _)
SkipWs(str, i) ==
  IF CharAt(str, i) \in {" ", "\t"} THEN SkipWs(str, i + 1) ELSE i

RECURSIVE SkipToSemi(_, _)
SkipToSemi(str, i) ==
  IF CharAt(str, i) # NUL /\ CharAt(str, i) # ";" THEN SkipToSemi(str, i + 1) ELSE i

\* strncmp(s, "spin", 4) == 0
StartsWithSpin(str, i) ==
  /\ CharAt(str, i) = "s"
  /\ CharAt(str, i + 1) = "p"
  /\ CharAt(str, i + 2) = "i"
  /\ CharAt(str, i + 3) = "n"

RECURSIVE ParseInt(_, _, _)
\* while(*s>='0'&&*s<='9') { ms = ms*10 + (*s-'0'); s++; }
ParseInt(str, i, ms) ==
  IF IsDigit(CharAt(str, i))
  THEN ParseInt(str, i + 1, ms * 10 + DigitVal(CharAt(str, i)))
  ELSE [ms |-> ms, s |-> i]

-----------------------------------------------------------------------------
(* The run queues.  A heap state H is [head, tail, proc]. *)

Heap == [head |-> head, tail |-> tail, proc |-> proc]

\* q_push linking the process in front of the head instead of behind the tail.
q_push_AtHead(H, q, x) ==
  IF H.head[q] = NULL
  THEN [head |-> [H.head EXCEPT ![q] = x],
        tail |-> [H.tail EXCEPT ![q] = x],
        proc |-> [H.proc EXCEPT ![x].next = NULL]]
  ELSE [head |-> [H.head EXCEPT ![q] = x],
        tail |-> H.tail,
        proc |-> [H.proc EXCEPT ![x].next = H.head[q]]]

q_push(H, q, x) ==
  LET P1 == [H.proc EXCEPT ![x].next = NULL] IN
  IF H.head[q] = NULL
  THEN [head |-> [H.head EXCEPT ![q] = x],
        tail |-> [H.tail EXCEPT ![q] = x],
        proc |-> P1]
  ELSE [head |-> H.head,
        tail |-> [H.tail EXCEPT ![q] = x],
        proc |-> [P1 EXCEPT ![H.tail[q]].next = x]]

\* q_pop without "q->head=p->next": the popped process stays linked in.
q_pop_KeepsHead(H, q) ==
  LET x == H.head[q] IN
  IF x = NULL THEN H
  ELSE [head |-> H.head,
        tail |-> H.tail,
        proc |-> H.proc]

\* The heap after q_pop(q); the pointer it returns is q_pop_ret(H, q).
q_pop_ret(H, q) == H.head[q]

q_pop(H, q) ==
  LET x == H.head[q] IN
  IF x = NULL THEN H
  ELSE LET nh == H.proc[x].next IN
       [head |-> [H.head EXCEPT ![q] = nh],
        tail |-> IF nh = NULL THEN [H.tail EXCEPT ![q] = NULL] ELSE H.tail,
        proc |-> [H.proc EXCEPT ![x].next = NULL]]

RECURSIVE Walk(_, _, _)
\* The pids met by following next from x, at most n of them.
Walk(P, x, n) ==
  IF x = NULL \/ n = 0 THEN <<>>
  ELSE IF x \notin DOMAIN P THEN <<x>>
  ELSE <<x>> \o Walk(P, P[x].next, n - 1)

\* The contents of queue q, head first, as the linked list spells them.
QSeq(H, q) == Walk(H.proc, H.head[q], Cardinality(DOMAIN H.proc) + 1)

Contents(q) == QSeq(Heap, q)

-----------------------------------------------------------------------------
(* Process creation *)

\* new_proc handing out L1's quantum to a new process.
new_proc_L1Quantum(H, pid, name, ms) ==
  LET rec == [name |-> name, work_left |-> ms, ticks_left |-> Q_L1,
              level |-> 0, next |-> NULL]
      P1 == [i \in DOMAIN H.proc \cup {pid} |-> IF i = pid THEN rec ELSE H.proc[i]]
  IN q_push([H EXCEPT !.proc = P1], L0, pid)

new_proc(H, pid, name, ms) ==
  LET rec == [name |-> name, work_left |-> ms, ticks_left |-> Q_L0,
              level |-> 0, next |-> NULL]
      P1 == [i \in DOMAIN H.proc \cup {pid} |-> IF i = pid THEN rec ELSE H.proc[i]]
  IN q_push([H EXCEPT !.proc = P1], L0, pid)

\* free(p)
Free(H, x) == [H EXCEPT !.proc = [i \in DOMAIN H.proc \ {x} |-> H.proc[i]]]

-----------------------------------------------------------------------------
(* Trace lines *)

RunLine(P, x) == [kind |-> "run", name |-> P[x].name, pid |-> x, ms |-> TICK_MS,
                  label |-> P[x].level]
ExitLine(P, x) == [kind |-> "exit", name |-> P[x].name, pid |-> x, ms |-> 0,
                   label |-> NOQ]
IdleLine == [kind |-> "idle", name |-> "idle", pid |-> 0, ms |-> TICK_MS,
             label |-> NOQ]

-----------------------------------------------------------------------------
(* Initial state: main has picked its command line, nothing is created yet *)

Init ==
  /\ cmd \in CmdLines
  /\ s = 1
  /\ next_pid = 1
  /\ proc = <<>>
  /\ head = [q \in Queues |-> NULL]
  /\ tail = [q \in Queues |-> NULL]
  /\ pc = "userinit"
  /\ p = NULL
  /\ qid = NOQ
  /\ idle = 0
  /\ ticks = 0
  /\ out = <<>>

SetHeap(H) ==
  /\ head' = H.head
  /\ tail' = H.tail
  /\ proc' = H.proc

-----------------------------------------------------------------------------
(* userinit_spin: one iteration of its outer loop *)

\* The iteration creating a process for a zero work amount as well.
UserinitSpin_ZeroCreates ==
  /\ pc = "userinit"
  /\ CharAt(cmd, s) # NUL
  /\ \E s1 \in {SkipSep(cmd, s)} :
     IF CharAt(cmd, s1) = NUL
     THEN /\ s' = s1
          /\ pc' = "loop"
          /\ UNCHANGED <<next_pid, proc, head, tail>>
     ELSE \E spin \in {StartsWithSpin(cmd, s1)} :
          \E r \in {IF spin THEN ParseInt(cmd, SkipWs(cmd, s1 + 4), 0)
                            ELSE [ms |-> 0, s |-> s1]} :
          \E s4 \in {SkipToSemi(cmd, r.s)} :
             /\ s' = IF CharAt(cmd, s4) = ";" THEN s4 + 1 ELSE s4
             /\ pc' = "userinit"
             /\ IF spin /\ r.ms >= 0
                THEN /\ SetHeap(new_proc(Heap, next_pid, "spin", r.ms))
                     /\ next_pid' = next_pid + 1
                ELSE UNCHANGED <<next_pid, proc, head, tail>>
  /\ UNCHANGED <<cmd, p, qid, idle, ticks, out>>

\* The locals of the iteration are bound one at a time, in program order, each
\* to the one value its statement computes.
UserinitSpin ==
  /\ pc = "userinit"
  /\ CharAt(cmd, s) # NUL
  /\ \E s1 \in {SkipSep(cmd, s)} :
     IF CharAt(cmd, s1) = NUL
     THEN /\ s' = s1
          /\ pc' = "loop"
          /\ UNCHANGED <<next_pid, proc, head, tail>>
     ELSE \E spin \in {StartsWithSpin(cmd, s1)} :
          \E r \in {IF spin THEN ParseInt(cmd, SkipWs(cmd, s1 + 4), 0)
                            ELSE [ms |-> 0, s |-> s1]} :
          \E s4 \in {SkipToSemi(cmd, r.s)} :
             /\ s' = IF CharAt(cmd, s4) = ";" THEN s4 + 1 ELSE s4
             /\ pc' = "userinit"
             /\ IF spin /\ r.ms > 0
                THEN /\ SetHeap(new_proc(Heap, next_pid, "spin", r.ms))
                     /\ next_pid' = next_pid + 1
                ELSE UNCHANGED <<next_pid, proc, head, tail>>
  /\ UNCHANGED <<cmd, p, qid, idle, ticks, out>>

\* while(*s) fails: userinit_spin returns and main sets idle=0, ticks=0.
UserinitReturn ==
  /\ pc = "userinit"
  /\ CharAt(cmd, s) = NUL
  /\ pc' = "loop"
  /\ idle' = 0
  /\ ticks' = 0
  /\ UNCHANGED <<cmd, s, next_pid, proc, head, tail, p, qid, out>>

-----------------------------------------------------------------------------
(* main's driver loop *)

\* The cap test letting one more iteration through.
Capped_Late(t) == t > TickCap + 1

\* if(ticks>100000) break;
Capped(t) == t > TickCap

\* The quiescence test firing one idle tick early.
Quiescent_Early(i) == i >= IdleLimit

\* if(idle>10) break;
Quiescent(i) == i > IdleLimit

\* !L0.head && !L1.head && !L2.head
AllEmpty(H) == H.head[L0] = NULL /\ H.head[L1] = NULL /\ H.head[L2] = NULL

MainCapBreak ==
  /\ pc = "loop"
  /\ Capped(ticks)
  /\ pc' = "done"
  /\ UNCHANGED <<cmd, s, next_pid, proc, head, tail, p, qid, idle, ticks, out>>

\* The idle branch without "ticks++": idle ticks do not count toward the cap.
MainIdle_NoTickCount ==
  /\ pc = "loop"
  /\ ~Capped(ticks)
  /\ AllEmpty(Heap)
  /\ idle' = idle + 1
  /\ ticks' = ticks
  /\ IF Quiescent(idle + 1)
     THEN pc' = "done" /\ out' = out
     ELSE pc' = "loop" /\ out' = Append(out, IdleLine)
  /\ UNCHANGED <<cmd, s, next_pid, proc, head, tail, p, qid>>

\* The idle branch printing its line before the quiescence test.
MainIdle_PrintFirst ==
  /\ pc = "loop"
  /\ ~Capped(ticks)
  /\ AllEmpty(Heap)
  /\ idle' = idle + 1
  /\ ticks' = ticks + 1
  /\ out' = Append(out, IdleLine)
  /\ pc' = IF Quiescent(idle + 1) THEN "done" ELSE "loop"
  /\ UNCHANGED <<cmd, s, next_pid, proc, head, tail, p, qid>>

MainIdle ==
  /\ pc = "loop"
  /\ ~Capped(ticks)
  /\ AllEmpty(Heap)
  /\ idle' = idle + 1
  /\ ticks' = ticks + 1
  /\ IF Quiescent(idle + 1)
     THEN pc' = "done" /\ out' = out
     ELSE pc' = "loop" /\ out' = Append(out, IdleLine)
  /\ UNCHANGED <<cmd, s, next_pid, proc, head, tail, p, qid>>

MainActive ==
  /\ pc = "loop"
  /\ ~Capped(ticks)
  /\ ~AllEmpty(Heap)
  /\ idle' = 0
  /\ ticks' = ticks + 1
  /\ pc' = "schedule"
  /\ UNCHANGED <<cmd, s, next_pid, proc, head, tail, p, qid, out>>

-----------------------------------------------------------------------------
(* schedule_one_tick *)

\* The selection with L1 tested before L0.
PickQueue_L1First(H) ==
  IF H.head[L1] # NULL THEN L1
  ELSE IF H.head[L0] # NULL THEN L0
  ELSE IF H.head[L2] # NULL THEN L2
  ELSE NOQ

\* 1) Highest non-empty queue first; NOQ when all are empty.
PickQueue(H) ==
  IF H.head[L0] # NULL THEN L0
  ELSE IF H.head[L1] # NULL THEN L1
  ELSE IF H.head[L2] # NULL THEN L2
  ELSE NOQ

\* The quantum written by "ticks_left ? ticks_left : Q_Lx" after a pop from q.
EntryQuantum(q) == IF q = L0 THEN Q_L0 ELSE IF q = L1 THEN Q_L1 ELSE Q_L2

Select ==
  /\ pc = "schedule"
  /\ LET q == PickQueue(Heap) IN
     IF q = NOQ
     THEN /\ out' = Append(out, IdleLine)
          /\ pc' = "loop"
          /\ UNCHANGED <<proc, head, tail, p, qid>>
     ELSE LET x  == q_pop_ret(Heap, q)
              H1 == q_pop(Heap, q)
              tl == IF H1.proc[x].ticks_left # 0 THEN H1.proc[x].ticks_left
                    ELSE EntryQuantum(q)
          IN /\ SetHeap([H1 EXCEPT !.proc[x].ticks_left = tl])
             /\ p' = x
             /\ qid' = q
             /\ pc' = "on_tick"
             /\ out' = out
  /\ UNCHANGED <<cmd, s, next_pid, idle, ticks>>

\* on_tick charging 1 ms instead of TICK_MS.
on_tick_OneMs(P, x) ==
  [P EXCEPT ![x].work_left = @ - 1, ![x].ticks_left = @ - 1]

\* on_tick without "p->ticks_left -= 1": the slice never runs down.
on_tick_NoSlice(P, x) ==
  [P EXCEPT ![x].work_left = @ - TICK_MS]

\* on_tick(p)
on_tick(P, x) ==
  [P EXCEPT ![x].work_left = @ - TICK_MS, ![x].ticks_left = @ - 1]

OnTick ==
  /\ pc = "on_tick"
  /\ proc' = on_tick(proc, p)
  /\ out' = Append(out, RunLine(proc', p))
  /\ pc' = "exit_check"
  /\ UNCHANGED <<cmd, s, next_pid, head, tail, p, qid, idle, ticks>>

\* The exit test letting a process with exactly no work left run once more.
Finished_Strict(P, x) == P[x].work_left < 0

\* The exit test made only when the slice has not expired.
Finished_SliceFirst(P, x) == P[x].work_left <= 0 /\ P[x].ticks_left > 0

\* if(p->work_left<=0)
Finished(P, x) == P[x].work_left <= 0

\* The branches with a priority boost: an expired L2 slice sends x back to L0.
Requeue_Boost(H, x, q) ==
  IF q = L0
  THEN IF H.proc[x].ticks_left > 0
       THEN q_push(H, L0, x)
       ELSE q_push([H EXCEPT !.proc[x].level = 1, !.proc[x].ticks_left = Q_L1], L1, x)
  ELSE IF q = L1
  THEN IF H.proc[x].ticks_left > 0
       THEN q_push(H, L1, x)
       ELSE q_push([H EXCEPT !.proc[x].level = 2, !.proc[x].ticks_left = Q_L2], L2, x)
  ELSE IF H.proc[x].ticks_left > 0
       THEN q_push(H, L2, x)
       ELSE q_push([H EXCEPT !.proc[x].level = 0, !.proc[x].ticks_left = Q_L0], L0, x)

\* The branches with the demotion L0 -> L1 handing out L2's quantum.
Requeue_WrongQuantum(H, x, q) ==
  IF q = L0
  THEN IF H.proc[x].ticks_left > 0
       THEN q_push(H, L0, x)
       ELSE q_push([H EXCEPT !.proc[x].level = 1, !.proc[x].ticks_left = Q_L2], L1, x)
  ELSE IF q = L1
  THEN IF H.proc[x].ticks_left > 0
       THEN q_push(H, L1, x)
       ELSE q_push([H EXCEPT !.proc[x].level = 2, !.proc[x].ticks_left = Q_L2], L2, x)
  ELSE IF H.proc[x].ticks_left > 0
       THEN q_push(H, L2, x)
       ELSE q_push([H EXCEPT !.proc[x].ticks_left = Q_L2], L2, x)

\* The branches with an expired slice requeued at the head's level: no demotion.
Requeue_NoDemotion(H, x, q) ==
  IF q = L0
  THEN IF H.proc[x].ticks_left > 0
       THEN q_push(H, L0, x)
       ELSE q_push([H EXCEPT !.proc[x].ticks_left = Q_L0], L0, x)
  ELSE IF q = L1
  THEN IF H.proc[x].ticks_left > 0
       THEN q_push(H, L1, x)
       ELSE q_push([H EXCEPT !.proc[x].ticks_left = Q_L1], L1, x)
  ELSE IF H.proc[x].ticks_left > 0
       THEN q_push(H, L2, x)
       ELSE q_push([H EXCEPT !.proc[x].ticks_left = Q_L2], L2, x)

\* The branches with the L0 demotion pushing to L1 without updating the level field.
Requeue_NoLevelUpdate(H, x, q) ==
  IF q = L0
  THEN IF H.proc[x].ticks_left > 0
       THEN q_push(H, L0, x)
       ELSE q_push([H EXCEPT !.proc[x].ticks_left = Q_L1], L1, x)
  ELSE IF q = L1
  THEN IF H.proc[x].ticks_left > 0
       THEN q_push(H, L1, x)
       ELSE q_push([H EXCEPT !.proc[x].level = 2, !.proc[x].ticks_left = Q_L2], L2, x)
  ELSE q_push([H EXCEPT !.proc[x].ticks_left = Q_L2], L2, x)

\* The branches with an expired L2 slice requeued without a fresh quantum.
Requeue_NoRefresh(H, x, q) ==
  IF q = L0
  THEN IF H.proc[x].ticks_left > 0
       THEN q_push(H, L0, x)
       ELSE q_push([H EXCEPT !.proc[x].level = 1, !.proc[x].ticks_left = Q_L1], L1, x)
  ELSE IF q = L1
  THEN IF H.proc[x].ticks_left > 0
       THEN q_push(H, L1, x)
       ELSE q_push([H EXCEPT !.proc[x].level = 2, !.proc[x].ticks_left = Q_L2], L2, x)
  ELSE q_push(H, L2, x)

\* The RR / demotion branches of schedule_one_tick, for a process x popped from q.
Requeue(H, x, q) ==
  IF q = L0
  THEN IF H.proc[x].ticks_left > 0
       THEN q_push(H, L0, x)
       ELSE q_push([H EXCEPT !.proc[x].level = 1, !.proc[x].ticks_left = Q_L1], L1, x)
  ELSE IF q = L1
  THEN IF H.proc[x].ticks_left > 0
       THEN q_push(H, L1, x)
       ELSE q_push([H EXCEPT !.proc[x].level = 2, !.proc[x].ticks_left = Q_L2], L2, x)
  ELSE IF H.proc[x].ticks_left > 0
       THEN q_push(H, L2, x)
       ELSE q_push([H EXCEPT !.proc[x].ticks_left = Q_L2], L2, x)

ExitOrRequeue ==
  /\ pc = "exit_check"
  /\ IF Finished(proc, p)
     THEN /\ out' = Append(out, ExitLine(proc, p))
          /\ SetHeap(Free(Heap, p))
     ELSE /\ out' = out
          /\ SetHeap(Requeue(Heap, p, qid))
  /\ p' = NULL
  /\ qid' = NOQ
  /\ pc' = "loop"
  /\ UNCHANGED <<cmd, s, next_pid, idle, ticks>>

-----------------------------------------------------------------------------

Next ==
  \/ UserinitSpin
  \/ UserinitReturn
  \/ MainCapBreak
  \/ MainIdle
  \/ MainActive
  \/ Select
  \/ OnTick
  \/ ExitOrRequeue

Spec == Init /\ [][Next]_vars

\* The program is a single sequential thread: it always takes its next step.
FairSpec == Spec /\ WF_vars(Next)

-----------------------------------------------------------------------------
(* Vocabulary of the properties *)

Created == 1..(next_pid - 1)
Live == DOMAIN proc
Exited == Created \ Live

\* How many times pid x occurs in sequence sq.
Count(sq, x) == Cardinality({i \in 1..Len(sq) : sq[i] = x})

\* How many times x occurs in the three queues together.
Occurrences(x) == Count(Contents(L0), x) + Count(Contents(L1), x) + Count(Contents(L2), x)

\* The quantum of a level, as the documentation states it: 1, 2 and 4 ticks.
Quantum(l) == CASE l = 0 -> 1 [] l = 1 -> 2 [] l = 2 -> 4

\* The positions of out that hold a run line of pid x at level l.
RunsAt(x, l) ==
  {i \in 1..Len(out) : out[i].kind = "run" /\ out[i].pid = x /\ out[i].label = l}

\* The positions of out that hold a line of the given kind for pid x.
LinesOf(x, k) == {i \in 1..Len(out) : out[i].kind = k /\ out[i].pid = x}

InTick == pc \in {"schedule", "on_tick", "exit_check"}

\* The contents of queue q in the next state of a step.
ContentsNext(q) == QSeq([head |-> head', tail |-> tail', proc |-> proc'], q)

-----------------------------------------------------------------------------
(* C1 - Single ownership.  Every live process occurs exactly once in the   *)
(* queues L0, L1, L2 taken together, except the process schedule_one_tick  *)
(* has popped (p), which occurs in none; outside schedule_one_tick no      *)
(* process is popped; an exited process occurs in no queue.                *)
C1_SingleOwnership ==
  /\ \A x \in Live : Occurrences(x) = IF x = p THEN 0 ELSE 1
  /\ \A x \in Exited : Occurrences(x) = 0
  /\ \A q \in Queues : \A i \in 1..Len(Contents(q)) : Contents(q)[i] \in Live
  /\ ~InTick => p = NULL
  /\ p # NULL => p \in Live

\* A process is popped while one process has exited and another waits in L2.
C1_Witness ==
  /\ pc = "exit_check"
  /\ p \in Live
  /\ qid = L1
  /\ Exited # {}
  /\ Contents(L2) # <<>>

(* C2 - Priority correctness.  The step of schedule_one_tick that selects  *)
(* the process to run pops the head of the lowest-numbered non-empty       *)
(* queue: from L0 whenever L0 is non-empty, from L1 only when L0 is empty, *)
(* from L2 only when L0 and L1 are empty.                                  *)
C2_PriorityCorrectness ==
  [][pc = "schedule" =>
       /\ \E q \in Queues :
            /\ Contents(q) # <<>>
            /\ \A r \in Queues : r < q => Contents(r) = <<>>
            /\ p' = Head(Contents(q))
            /\ qid' = q
            /\ ContentsNext(q) = Tail(Contents(q))
            /\ \A r \in Queues \ {q} : ContentsNext(r) = Contents(r)
       /\ pc' = "on_tick"]_vars

\* A process is dispatched from L1, L0 being empty, while another waits in L2.
C2_Witness ==
  /\ pc = "on_tick"
  /\ qid = L1
  /\ p \in Live
  /\ Contents(L0) = <<>>
  /\ Len(Contents(L2)) >= 1

(* C3 - Monotone demotion.  The level of a process is always one of 0, 1,  *)
(* 2; no step decreases it; once it is 2 no step changes it.               *)
C3_MonotoneDemotion ==
  /\ [](\A x \in Live : proc[x].level \in 0..2)
  /\ [][\A x \in Live \cap DOMAIN proc' :
          /\ proc'[x].level >= proc[x].level
          /\ proc[x].level = 2 => proc'[x].level = 2]_vars

\* A process has used up a whole L2 quantum and is back in L2, still at level 2.
C3_Witness ==
  \E x \in Live :
    /\ pc = "loop"
    /\ proc[x].level = 2
    /\ Cardinality(RunsAt(x, 2)) >= 4

(* C4 - Quantum bound.  In every state, the one right after on_tick's      *)
(* decrement included, every live process has                              *)
(* 0 <= ticks_left <= quantum(level), with quanta 1, 2, 4.                 *)
C4_QuantumBound ==
  \A x \in Live :
    /\ proc[x].level \in 0..2
    /\ 0 <= proc[x].ticks_left
    /\ proc[x].ticks_left <= Quantum(proc[x].level)

\* Right after the decrement, the dispatched process has used up its L2 quantum
\* while another process holds a full L2 quantum.
C4_Witness ==
  /\ pc = "exit_check"
  /\ p \in Live
  /\ proc[p].level = 2
  /\ proc[p].ticks_left = 0
  /\ \E x \in Live : x # p /\ proc[x].level = 2 /\ proc[x].ticks_left = 4

(* C5 - Work conservation.  An active tick is one pass select -> on_tick   *)
(* -> exit check, with one dispatched process p; on_tick lowers p's        *)
(* work_left by exactly 10 and prints one run line; no other step changes  *)
(* any work_left; no step changes work_left, ticks_left or level of a     *)
(* process other than the dispatched one; the driver's own steps (idle     *)
(* ticks included) change no process at all.                               *)
C5_WorkConservation ==
  [][/\ pc = "schedule" => pc' = "on_tick" /\ p' \in Live
     /\ pc = "on_tick" =>
          /\ pc' = "exit_check" /\ p' = p /\ p \in Live
          /\ proc'[p].work_left = proc[p].work_left - 10
          /\ out' = Append(out, [kind |-> "run", name |-> proc[p].name, pid |-> p,
                                 ms |-> 10, label |-> proc[p].level])
     /\ pc = "exit_check" => pc' = "loop" /\ p' = NULL
     /\ pc # "on_tick" =>
          \A x \in Live \cap DOMAIN proc' : proc'[x].work_left = proc[x].work_left
     /\ \A x \in Live \cap DOMAIN proc' :
          (x # p /\ x # p') =>
             /\ proc'[x].work_left = proc[x].work_left
             /\ proc'[x].ticks_left = proc[x].ticks_left
             /\ proc'[x].level = proc[x].level
     /\ pc = "loop" => proc' = proc /\ head' = head /\ tail' = tail
    ]_vars

\* A tick has run one of several live processes, which did not finish.
C5_Witness ==
  /\ pc = "exit_check"
  /\ p \in Live
  /\ proc[p].work_left > 0
  /\ Cardinality(Live) >= 3

(* C6 - Exit always wins and happens once.  A live process outside its own *)
(* exit check has work_left > 0; when the tick's decrement leaves          *)
(* work_left <= 0 the process is freed in that tick, whatever ticks_left   *)
(* is: it is not requeued, the queues are untouched and an EXIT line       *)
(* follows its run line.  An exited pid has exactly one EXIT line, right   *)
(* after its last run line, no line after it, is never the dispatched      *)
(* process again and is in no queue.                                       *)
C6_ExitInv ==
  /\ \A x \in Live : (x # p \/ pc # "exit_check") => proc[x].work_left > 0
  /\ \A x \in Exited :
       /\ Cardinality(LinesOf(x, "exit")) = 1
       /\ \A i \in LinesOf(x, "exit") :
            /\ i > 1 /\ out[i - 1].kind = "run" /\ out[i - 1].pid = x
            /\ \A j \in (i + 1)..Len(out) : out[j].pid # x
       /\ p # x
       /\ Occurrences(x) = 0
       /\ \A q \in Queues : head[q] # x /\ tail[q] # x
  /\ \A x \in Live : LinesOf(x, "exit") = {}

C6_ExitStep ==
  (pc = "exit_check" /\ proc[p].work_left <= 0) =>
     /\ p \notin DOMAIN proc'
     /\ out' = Append(out, [kind |-> "exit", name |-> proc[p].name, pid |-> p,
                            ms |-> 0, label |-> NOQ])
     /\ out[Len(out)].kind = "run" /\ out[Len(out)].pid = p
     /\ \A q \in Queues : ContentsNext(q) = Contents(q)
     /\ head' = head /\ tail' = tail

\* C6: the exit invariant holds in every state and every exit check obeys the exit step.
C6_ExitWins == []C6_ExitInv /\ [][C6_ExitStep]_vars

\* A process exited in a tick that also used up its L1 quantum, and the
\* simulation went on dispatching others afterwards.
C6_Witness ==
  \E i \in 2..(Len(out) - 1) :
    /\ out[i].kind = "exit"
    /\ out[i - 1].kind = "run"
    /\ out[i - 1].label = 1
    /\ Cardinality(RunsAt(out[i].pid, 1)) = 2
    /\ out[i + 1].kind = "run"

(* C7 - Requeue/demotion decision.  For a dispatched process that did not  *)
(* exit, with tl its ticks_left and lv its level after on_tick: (a) tl > 0 *)
(* - it becomes the tail of queue lv, level and ticks_left unchanged;      *)
(* (b) tl = 0, lv < 2 - it becomes the tail of queue lv+1 with level lv+1  *)
(* and ticks_left = quantum(lv+1); (c) tl = 0, lv = 2 - it becomes the     *)
(* tail of L2 with level 2 and ticks_left = 4.  The other queues and the   *)
(* process's work_left are unchanged.                                      *)
C7_Target(lv, tl) == IF tl = 0 /\ lv < 2 THEN lv + 1 ELSE lv

C7_RequeueStep ==
  (pc = "exit_check" /\ proc[p].work_left > 0) =>
     LET lv == proc[p].level
         tl == proc[p].ticks_left
         to == C7_Target(lv, tl)
     IN /\ p \in DOMAIN proc'
        /\ ContentsNext(to) = Append(Contents(to), p)
        /\ tail'[to] = p
        /\ \A q \in Queues \ {to} : ContentsNext(q) = Contents(q)
        /\ proc'[p].level = to
        /\ proc'[p].ticks_left = IF tl > 0 THEN tl ELSE Quantum(to)
        /\ proc'[p].work_left = proc[p].work_left
        /\ out' = out

\* C7: every exit check of a process that did not finish requeues it as cases (a)-(c) say.
C7_RequeueDecision == [][C7_RequeueStep]_vars

\* Case (c) has happened: a process that ran a whole L2 quantum is the tail of
\* L2 behind another process, with a fresh quantum of 4; cases (a) and (b)
\* happened on the way.
C7_Witness ==
  \E x \in Live :
    /\ pc = "loop"
    /\ Cardinality(RunsAt(x, 2)) = 4
    /\ proc[x].ticks_left = 4
    /\ tail[L2] = x
    /\ head[L2] # x

-----------------------------------------------------------------------------
QueuesEmpty == \A q \in Queues : Contents(q) = <<>>

\* The number of ticks processed so far: each prints one run or idle line.
ProcessedTicks == Cardinality({i \in 1..Len(out) : out[i].kind \in {"run", "idle"}})

IdleTraceLine == [kind |-> "idle", name |-> "idle", pid |-> 0, ms |-> 10, label |-> NOQ]

(* C8 as stated - Tick driver step.  On every loop iteration the cap does  *)
(* not stop: with all queues empty the driver prints one idle line and     *)
(* increments idle; otherwise it sets idle to 0 and calls                  *)
(* schedule_one_tick; either way ticks advances by exactly one.            *)
C8_Original ==
  [][(pc = "loop" /\ ~(ticks > TickCap)) =>
       /\ ticks' = ticks + 1
       /\ IF QueuesEmpty
          THEN idle' = idle + 1 /\ out' = Append(out, IdleTraceLine)
          ELSE idle' = 0 /\ pc' = "schedule" /\ out' = out]_vars

(* C8 amended - as above, except that the iteration whose increment takes  *)
(* idle above 10 prints no idle line and ends the loop; and               *)
(* schedule_one_tick is entered only from an active iteration, once.       *)
C8_TickDriverStep ==
  [][/\ (pc = "loop" /\ ~(ticks > TickCap)) =>
          /\ ticks' = ticks + 1
          /\ IF QueuesEmpty
             THEN /\ idle' = idle + 1
                  /\ IF idle + 1 > 10
                     THEN out' = out /\ pc' = "done"
                     ELSE out' = Append(out, IdleTraceLine) /\ pc' = "loop"
                  /\ proc' = proc
             ELSE idle' = 0 /\ pc' = "schedule" /\ out' = out
     /\ pc' = "schedule" => (pc = "loop" /\ ~QueuesEmpty)
     /\ pc # "loop" => (ticks' = ticks /\ idle' = idle)
    ]_vars

\* The run ended by quiescence after active ticks: idle and active iterations
\* both advanced ticks, and the last iteration printed nothing.
C8_Witness ==
  /\ pc = "done"
  /\ idle = 11
  /\ ticks > 11
  /\ Cardinality(LinesOf(0, "idle")) = 10
  /\ ProcessedTicks = ticks - 1

(* C9 as stated - Hard tick cap.  No tick is processed in an iteration     *)
(* that starts with ticks equal to the cap, so at most cap ticks are ever  *)
(* processed.                                                              *)
C9_Original ==
  /\ ProcessedTicks <= TickCap
  /\ InTick => ticks - 1 < TickCap

(* C9 amended - The driver stops once ticks exceeds the cap: an iteration  *)
(* that starts with ticks > cap processes nothing and ends the loop (one   *)
(* that starts with ticks = cap still processes a tick), so ticks never    *)
(* exceeds cap + 1 and at most cap + 1 ticks are ever processed.           *)
C9_CapInv ==
  /\ ProcessedTicks <= TickCap + 1
  /\ ticks <= TickCap + 1
  /\ InTick => ticks - 1 <= TickCap

\* C9 amended: the cap invariant holds in every state and a capped iteration only stops.
C9_HardTickCap ==
  /\ []C9_CapInv
  /\ [][(pc = "loop" /\ ticks > TickCap) =>
          (pc' = "done" /\ out' = out /\ proc' = proc /\ ticks' = ticks)]_vars

\* The cap stopped a run that still had work queued, after cap + 1 ticks.
C9_Witness ==
  /\ pc = "done"
  /\ ticks = TickCap + 1
  /\ ProcessedTicks = TickCap + 1
  /\ ~QueuesEmpty

(* C10 - Termination.  For every workload the driver loop ends, and when   *)
(* it has ended either idle exceeded 10 with all queues empty or ticks     *)
(* exceeded the cap.                                                       *)
C10_Termination ==
  /\ <>(pc = "done")
  /\ [](pc = "done" => ((idle > 10 /\ QueuesEmpty) \/ ticks > TickCap))

\* A run that created processes ended by quiescence, below the cap.
C10_Witness ==
  /\ pc = "done"
  /\ idle > 10
  /\ ticks <= TickCap
  /\ Exited # {}
  /\ QueuesEmpty

-----------------------------------------------------------------------------
\* The loader has returned without creating a process.
EmptyWorkload == pc # "userinit" /\ next_pid = 1

(* C11 - Scenario C, the empty workload.  When the loader creates no       *)
(* process, every line printed is an idle line, schedule_one_tick is never *)
(* entered, no process exists, and the run ends, having printed exactly 10 *)
(* idle lines, by quiescence (idle = 11).                                  *)
C11_EmptyInv ==
  EmptyWorkload =>
     /\ ~InTick
     /\ Live = {}
     /\ QueuesEmpty
     /\ \A i \in 1..Len(out) : out[i] = IdleTraceLine
     /\ Len(out) <= 10
     /\ Len(out) = IF idle > 10 THEN 10 ELSE idle
     /\ pc = "done" => (idle = 11 /\ Len(out) = 10 /\ ticks = 11)

C11_EmptyWorkload ==
  /\ []C11_EmptyInv
  /\ (EmptyWorkload ~> (pc = "done"))

\* A command line that names only zero work amounts ran to its end.
C11_Witness ==
  /\ EmptyWorkload
  /\ cmd # <<>>
  /\ pc = "done"
  /\ Len(out) = 10

-----------------------------------------------------------------------------
\* "spin 10 &; spin 20 &; spin 40 &;"
ScenarioA == Render(<<10, 20, 40>>)

TraceRun(x, l) == [kind |-> "run", name |-> "spin", pid |-> x, ms |-> 10, label |-> l]
TraceExit(x) == [kind |-> "exit", name |-> "spin", pid |-> x, ms |-> 0, label |-> NOQ]

\* The lines of the first five ticks of scenario A.
ScenarioATrace ==
  <<TraceRun(1, 0), TraceExit(1), TraceRun(2, 0), TraceRun(3, 0),
    TraceRun(2, 1), TraceExit(2), TraceRun(3, 1)>>

(* C12 - Scenario A.  With work 10, 20 and 40 ms the trace starts: pid 1   *)
(* at L0, EXIT of pid 1, pid 2 at L0, pid 3 at L0, pid 2 at L1, EXIT of   *)
(* pid 2, pid 3 at L1; pid 1 exits in tick 1.                              *)
C12_ScenarioA ==
  cmd = ScenarioA =>
     /\ \A i \in 1..Len(out) : i <= 7 => out[i] = ScenarioATrace[i]
     /\ (pc = "loop" /\ ticks >= 1) => (1 \in Exited /\ Cardinality(LinesOf(1, "run")) = 1)
     /\ (pc = "loop" /\ ticks <= 5) => ProcessedTicks = ticks

\* Scenario A has run its first five ticks.
C12_Witness ==
  /\ cmd = ScenarioA
  /\ pc = "loop"
  /\ ticks = 5
  /\ Len(out) = 7

-----------------------------------------------------------------------------
\* The level the header comment gives to a process's k-th tick: quanta 1, 2, 4.
DispatchLevel(k) == IF k = 1 THEN 0 ELSE IF k <= 3 THEN 1 ELSE 2

\* The number of run lines of pid x among the first i lines of out.
RunsUpTo(x, i) == Cardinality({j \in 1..i : out[j].kind = "run" /\ out[j].pid = x})

(* C13 - Scenario B generalised.  The level printed in the k-th run line   *)
(* of a process is 0 for k = 1, 1 for k = 2, 3 and 2 for every k >= 4,     *)
(* whatever runs of other processes lie in between.                        *)
C13_LevelByTicks ==
  \A i \in 1..Len(out) :
    out[i].kind = "run" => out[i].label = DispatchLevel(RunsUpTo(out[i].pid, i))

\* A process has gone through L0, L1 and a whole L2 quantum and runs at L2
\* again, with runs of another process in between.
C13_Witness ==
  \E x \in Live :
    /\ Cardinality(RunsAt(x, 0)) = 1
    /\ Cardinality(RunsAt(x, 1)) = 2
    /\ Cardinality(RunsAt(x, 2)) >= 5
    /\ \E y \in Created \ {x} : RunsAt(y, 2) # {}

-----------------------------------------------------------------------------
(* C14 - The quantum entry guard is unreachable.  Every process resident   *)
(* in a queue has ticks_left >= 1, and the selection step of               *)
(* schedule_one_tick leaves the ticks_left of the process it pops as it    *)
(* was: "ticks_left ? ticks_left : Q_Lx" never takes its second branch.    *)
C14_ResidentInv ==
  \A q \in Queues : \A i \in 1..Len(Contents(q)) :
     /\ Contents(q)[i] \in Live
     /\ proc[Contents(q)[i]].ticks_left >= 1

C14_SelectStep ==
  pc = "schedule" =>
     /\ p' \in Live
     /\ proc[p'].ticks_left # 0
     /\ proc'[p'].ticks_left = proc[p'].ticks_left

\* C14: residents always hold a non-zero quantum and no selection resets one.
C14_GuardUnreachable == []C14_ResidentInv /\ [][C14_SelectStep]_vars

\* A process whose L2 quantum expired and was refreshed has been popped again,
\* with its full quantum.
C14_Witness ==
  /\ pc = "on_tick"
  /\ p \in Live
  /\ qid = L2
  /\ Cardinality(RunsAt(p, 2)) = 4
  /\ proc[p].ticks_left = 4

-----------------------------------------------------------------------------
(* C18 - Level / queue consistency.  A process resident in queue Lk has    *)
(* level = k; the process being run has the level of the queue it was      *)
(* popped from, and the run line printed for it carries that queue's id.   *)
C18_ResidentLevel ==
  \A q \in Queues : \A i \in 1..Len(Contents(q)) :
     /\ Contents(q)[i] \in Live
     /\ proc[Contents(q)[i]].level = q

C18_RunningLevel ==
  pc \in {"on_tick", "exit_check"} =>
     /\ p \in Live
     /\ proc[p].level = qid
     /\ pc = "exit_check" =>
          /\ Len(out) >= 1
          /\ out[Len(out)] = [kind |-> "run", name |-> proc[p].name, pid |-> p,
                              ms |-> TICK_MS, label |-> qid]

\* C18: the level field, the queue of residence and the printed label agree.
C18_LevelQueueConsistency == C18_ResidentLevel /\ C18_RunningLevel

\* A demoted process popped from L1 has printed its run line while L1 and L2
\* both hold other processes.
C18_Witness ==
  /\ pc = "exit_check"
  /\ qid = L1
  /\ Contents(L1) # <<>>
  /\ Contents(L2) # <<>>

-----------------------------------------------------------------------------
(* C16 - Process creation.  The work amounts a command string was built    *)
(* from are recovered from the string itself, independently of the parser. *)

\* The list of work amounts each generated command string was rendered from.
WorksOfCmd ==
  [c \in CmdLines |->
     IF c = DefaultCmdline THEN <<10000, 200000, 3000000>>
     ELSE CHOOSE w \in WorkLists : Render(w) = c]

IsPositive(w) == w > 0

\* The amounts that are to become processes, in order of occurrence.
PositiveWorks == SelectSeq(WorksOfCmd[cmd], IsPositive)

\* <<1, 2, ..., n>>
Iota(n) == [i \in 1..n |-> i]

\* While the loader runs, and until the first tick, the processes created so
\* far are pids 1..k for the first k positive amounts, all fresh at the tail
\* of L0 in creation order.
C16_Loaded ==
  (pc = "userinit" \/ (pc = "loop" /\ ticks = 0)) =>
     /\ next_pid - 1 <= Len(PositiveWorks)
     /\ Live = Created
     /\ Contents(L0) = Iota(next_pid - 1)
     /\ Contents(L1) = <<>>
     /\ Contents(L2) = <<>>
     /\ \A x \in Created :
          /\ proc[x].work_left = PositiveWorks[x]
          /\ proc[x].level = 0
          /\ proc[x].ticks_left = Quantum(0)

\* Once the loader has returned, every positive amount has its process.
C16_AllCreated == pc # "userinit" => next_pid - 1 = Len(PositiveWorks)

\* C16: only positive amounts create processes; the k-th gets pid k, level 0,
\* ticks_left 1 and the tail of L0; before the first tick L0 holds them all in
\* creation order and L1, L2 are empty.
C16_ProcessCreation == C16_Loaded /\ C16_AllCreated

\* A zero amount between two positive ones: two processes, pids 1 and 2.
C16_Witness ==
  /\ pc = "loop"
  /\ ticks = 0
  /\ Len(WorksOfCmd[cmd]) = 3
  /\ WorksOfCmd[cmd][2] = 0
  /\ Contents(L0) = <<1, 2>>
  /\ proc[2].work_left = WorksOfCmd[cmd][3]

-----------------------------------------------------------------------------
(* C19 - No starvation and absorbing idle.                                  *)

\* ceil(w / TICK_MS)
TicksNeeded(w) == (w + TICK_MS - 1) \div TICK_MS

RECURSIVE TotalTicksNeeded(_)
TotalTicksNeeded(works) ==
  IF works = <<>> THEN 0
  ELSE TicksNeeded(Head(works)) + TotalTicksNeeded(Tail(works))

\* The workload can be served within the tick cap.
Fits == TotalTicksNeeded(PositiveWorks) <= TickCap

\* Process x has exited: one EXIT line, after exactly ceil(work/TICK_MS) run lines.
ExitedCleanly(x) ==
  /\ x \notin Live
  /\ Cardinality(LinesOf(x, "exit")) = 1
  /\ Cardinality(LinesOf(x, "run")) = TicksNeeded(PositiveWorks[x])
  /\ \A i \in LinesOf(x, "run") : \A j \in LinesOf(x, "exit") : i < j

\* Every process the workload asks for has been created and has exited.
AllExited ==
  /\ pc # "userinit"
  /\ next_pid - 1 = Len(PositiveWorks)
  /\ \A x \in Created : ExitedCleanly(x)

\* A process that is gone has exited cleanly; one still live has printed no
\* EXIT line and fewer run lines than it needs, or exactly as many and is at
\* the exit test.
C19_ExitInv ==
  \A x \in Created :
     IF x \in Live
     THEN /\ LinesOf(x, "exit") = {}
          /\ Cardinality(LinesOf(x, "run")) <= TicksNeeded(PositiveWorks[x])
          /\ Cardinality(LinesOf(x, "run")) = TicksNeeded(PositiveWorks[x])
                => (pc = "exit_check" /\ p = x)
     ELSE Fits => ExitedCleanly(x)

\* At a loop boundary with all queues empty nothing is dispatched any more:
\* the queues stay empty and the only line printed is an idle line.
C19_AbsorbingStep ==
  (pc \in {"loop", "done"} /\ QueuesEmpty) =>
     /\ pc' \in {"loop", "done"}
     /\ QueuesEmpty'
     /\ Live' = {}
     /\ out' = out \/ out' = Append(out, IdleTraceLine)

\* The consecutive-idle counter is never reset from a non-zero value.
C19_IdleStep == idle # 0 => idle' >= idle

\* C19: a workload that fits within the cap is served to the end, every
\* process exiting after exactly ceil(work/TICK_MS) run lines and one EXIT
\* line; empty queues stay empty and the idle counter is never reset from a
\* non-zero value.
C19_NoStarvation ==
  /\ (Fits ~> AllExited)
  /\ []C19_ExitInv
  /\ [][C19_AbsorbingStep]_vars
  /\ [][C19_IdleStep]_vars

\* Three processes of different lengths, one a partial tick, all served and
\* the run ended.
C19_Witness ==
  /\ Fits
  /\ AllExited
  /\ pc = "done"
  /\ next_pid = 4
  /\ PositiveWorks[1] = 80
  /\ PositiveWorks[2] = 5
  /\ PositiveWorks[3] = 30

-----------------------------------------------------------------------------
(* The run queues on their own: q_push and q_pop applied in any order to   *)
(* the three queues.  The processes exist already (allocated, in no        *)
(* queue); a process is pushed only while it is in no queue, as the        *)
(* intrusive next link requires.  Here out records the calls made: each    *)
(* push with its argument, each pop with the pointer it returned, and      *)
(* ticks counts the calls.                                                 *)

\* The largest number of q_push / q_pop calls in one behaviour.
MaxOps == 5

Resident(x) == \E q \in Queues : \E i \in 1..Len(Contents(q)) : Contents(q)[i] = x

PushCall(q, x) == [kind |-> "push", name |-> "spin", pid |-> x, ms |-> 0, label |-> q]
PopCall(q, x) == [kind |-> "pop", name |-> "spin", pid |-> x, ms |-> 0, label |-> q]

InitQ ==
  /\ cmd = <<>>
  /\ s = 1
  /\ next_pid = MaxProcs + 1
  /\ proc = [x \in 1..MaxProcs |->
               [name |-> "spin", work_left |-> TICK_MS, ticks_left |-> Q_L0,
                level |-> 0, next |-> NULL]]
  /\ head = [q \in Queues |-> NULL]
  /\ tail = [q \in Queues |-> NULL]
  /\ pc = "queue_ops"
  /\ p = NULL
  /\ qid = NOQ
  /\ idle = 0
  /\ ticks = 0
  /\ out = <<>>

\* q_push(&Lq, x)
QPush(q, x) ==
  /\ ticks < MaxOps
  /\ x \in DOMAIN proc
  /\ ~Resident(x)
  /\ SetHeap(q_push(Heap, q, x))
  /\ out' = Append(out, PushCall(q, x))
  /\ ticks' = ticks + 1
  /\ UNCHANGED <<cmd, s, next_pid, pc, p, qid, idle>>

\* p = q_pop(&Lq)
QPop(q) ==
  /\ ticks < MaxOps
  /\ SetHeap(q_pop(Heap, q))
  /\ p' = q_pop_ret(Heap, q)
  /\ qid' = q
  /\ out' = Append(out, PopCall(q, q_pop_ret(Heap, q)))
  /\ ticks' = ticks + 1
  /\ UNCHANGED <<cmd, s, next_pid, pc, idle>>

AnyQPush == \E q \in Queues : \E x \in 1..MaxProcs : QPush(q, x)

AnyQPop == \E q \in Queues : QPop(q)

NextQ ==
  \/ AnyQPush
  \/ AnyQPop

SpecQ == InitQ /\ [][NextQ]_vars

(* C15 - The run queue is FIFO. *)

IsPushOn(q, c) == c.kind = "push" /\ c.label = q
IsPopFrom(q, c) == c.kind = "pop" /\ c.label = q /\ c.pid # NULL

RECURSIVE PidsOf(_)
PidsOf(calls) ==
  IF calls = <<>> THEN <<>> ELSE <<Head(calls).pid>> \o PidsOf(Tail(calls))

\* The processes pushed onto q so far, in the order of the pushes.
Pushed(q) == PidsOf(SelectSeq(out, LAMBDA c : IsPushOn(q, c)))

\* The processes q_pop has returned from q so far, in the order of the pops.
Popped(q) == PidsOf(SelectSeq(out, LAMBDA c : IsPopFrom(q, c)))

\* The pops of q have returned its pushes in the order they were made, and
\* the queue holds the ones not yet popped, earliest first.
C15_FifoInv == \A q \in Queues : Pushed(q) = Popped(q) \o Contents(q)

\* What one call does to the queue it is made on and to the others.
C15_CallStep ==
  out' # out =>
    LET c == out'[Len(out')] IN
      /\ \A r \in Queues \ {c.label} : ContentsNext(r) = Contents(r)
      /\ c.kind = "push" => ContentsNext(c.label) = Append(Contents(c.label), c.pid)
      /\ (c.kind = "pop" /\ Contents(c.label) # <<>>) =>
            /\ c.pid = Head(Contents(c.label))
            /\ p' = c.pid
            /\ ContentsNext(c.label) = Tail(Contents(c.label))
      /\ (c.kind = "pop" /\ Contents(c.label) = <<>>) =>
            /\ c.pid = NULL
            /\ p' = NULL
            /\ ContentsNext(c.label) = <<>>
            /\ UNCHANGED <<head, tail, proc>>

\* C15: for any interleaving of q_push and q_pop on the three queues a pop
\* returns the earliest process pushed onto its queue and not yet popped, a
\* pop of an empty queue returns NULL and changes nothing, and no call
\* changes another queue.
C15_Fifo == []C15_FifoInv /\ [][C15_CallStep]_vars

\* Pushes onto L1 and L0 interleaved with a pop of the empty L2; the pop of L1
\* has returned the earlier of its two pushes and the later one is still queued.
C15_Witness ==
  /\ Len(out) = 5
  /\ out[3] = PopCall(L2, NULL)
  /\ Pushed(L1) = <<2, 3>>
  /\ Popped(L1) = <<2>>
  /\ Contents(L1) = <<3>>
  /\ Contents(L0) = <<1>>
  /\ p = 2

-----------------------------------------------------------------------------
(* The loader on its own: userinit_spin run on command strings in which    *)
(* spin commands and separator characters follow each other freely.        *)

\* The largest number of items (a spin command with the character that
\* follows it, or a lone separator character) in a generated command string.
MaxItems == 4
\* The work amounts of the generated spin commands.
ParseAmounts == {0, 1, 20}
\* The characters the loader skips between commands.
Separators == {" ", "&", ";"}

ParseItems ==
  {<<c>> : c \in Separators}
    \cup {<<"s", "p", "i", "n", " ">> \o Decimal(ms) \o <<c>> :
            ms \in ParseAmounts, c \in Separators}

RECURSIVE Concat(_)
Concat(items) == IF items = <<>> THEN <<>> ELSE Head(items) \o Concat(Tail(items))

ParseInputs == {Concat(items) : items \in UNION {[1..n -> ParseItems] : n \in 0..MaxItems}}

InitParse ==
  /\ cmd \in ParseInputs
  /\ s = 1
  /\ next_pid = 1
  /\ proc = <<>>
  /\ head = [q \in Queues |-> NULL]
  /\ tail = [q \in Queues |-> NULL]
  /\ pc = "userinit"
  /\ p = NULL
  /\ qid = NOQ
  /\ idle = 0
  /\ ticks = 0
  /\ out = <<>>

NextParse ==
  \/ UserinitSpin
  \/ UserinitReturn

SpecParse == InitParse /\ [][NextParse]_vars

(* C17 - Input grammar.  The grammar is stated over the command string,    *)
(* position by position, without reference to the loader's cursor.         *)

\* The end of the run of characters of set cs that starts at position i.
RECURSIVE RunEnd(_, _, _)
RunEnd(str, i, cs) == IF CharAt(str, i) \in cs THEN RunEnd(str, i + 1, cs) ELSE i

Whitespace == {" ", "\t"}
Digits == {DigitChars[d] : d \in 1..10}

\* The value of the decimal numeral str[i..j-1].
RECURSIVE NumeralValue(_, _, _)
NumeralValue(str, i, j) ==
  IF j <= i THEN 0 ELSE 10 * NumeralValue(str, i, j - 1) + DigitVal(str[j - 1])

\* An occurrence at position i of the token spin, whitespace, and a decimal
\* integer; the value of the integer, or 0 when there is no such occurrence.
SpinAmountAt(str, i) ==
  LET w == i + 4
      d == RunEnd(str, w, Whitespace)
      e == RunEnd(str, d, Digits)
  IN IF <<CharAt(str, i), CharAt(str, i + 1), CharAt(str, i + 2), CharAt(str, i + 3)>>
          = <<"s", "p", "i", "n">> /\ d > w /\ e > d
     THEN NumeralValue(str, d, e)
     ELSE 0

\* The positive amounts of the occurrences in str from position i on, in order.
RECURSIVE GrammarWorks(_, _)
GrammarWorks(str, i) ==
  IF i > Len(str) THEN <<>>
  ELSE IF SpinAmountAt(str, i) > 0
       THEN <<SpinAmountAt(str, i)>> \o GrammarWorks(str, i + 1)
       ELSE GrammarWorks(str, i + 1)

\* The work amounts of the processes created, in pid order.
CreatedWorks == [x \in 1..(next_pid - 1) |-> proc[x].work_left]

\* C17: once userinit_spin has returned (and before the first tick frees
\* anything), one process has been created for each
\* occurrence of spin, whitespace and a positive integer in the command string,
\* with that integer as its work, in order of occurrence; '&', ';' and extra
\* whitespace change nothing.
C17_InputGrammar ==
  (pc = "loop" /\ ticks = 0) => CreatedWorks = GrammarWorks(cmd, 1)

-----------------------------------------------------------------------------
(* o1sim_skeleton, the O(1)-style skeleton as shipped: the same loader and  *)
(* driver around queues FQ, AQ and EQ whose q_push and q_pop are left to   *)
(* the student, and a schedule_one_tick and maybe_swap_queues with empty   *)
(* bodies.  The heap, cursor, counters and trace are the same variables;   *)
(* head and tail are indexed by the three queue names, and a process       *)
(* record carries in_queue instead of level.                               *)

FQ_Q == 1

O1Queues == {"FQ", "AQ", "EQ"}

\* q_push filled in as its hints say: enqueue at the tail.
o1_q_push_Filled(H, q, x) == q_push(H, q, x)

\* static void q_push(queue_t *q, proc_t *p) { /* TODO */ }
o1_q_push(H, q, x) == H

o1_new_proc(H, pid, name, ms) ==
  LET rec == [name |-> name, work_left |-> ms, ticks_left |-> FQ_Q,
              in_queue |-> "FQ", next |-> NULL]
      P1 == [i \in DOMAIN H.proc \cup {pid} |-> IF i = pid THEN rec ELSE H.proc[i]]
  IN o1_q_push([H EXCEPT !.proc = P1], "FQ", pid)

\* static void maybe_swap_queues(void) { /* TODO */ }
maybe_swap_queues(H) == H

\* static void schedule_one_tick(void) { /* TODO */ }
o1_schedule_one_tick(H) == H

\* !FQ.head && !AQ.head && !EQ.head
o1_AllEmpty(H) == \A q \in O1Queues : H.head[q] = NULL

InitO1 ==
  /\ cmd \in CmdLines
  /\ s = 1
  /\ next_pid = 1
  /\ proc = <<>>
  /\ head = [q \in O1Queues |-> NULL]
  /\ tail = [q \in O1Queues |-> NULL]
  /\ pc = "userinit"
  /\ p = NULL
  /\ qid = NOQ
  /\ idle = 0
  /\ ticks = 0
  /\ out = <<>>

\* One iteration of userinit_spin's outer loop.
O1UserinitSpin ==
  /\ pc = "userinit"
  /\ CharAt(cmd, s) # NUL
  /\ \E s1 \in {SkipSep(cmd, s)} :
     IF CharAt(cmd, s1) = NUL
     THEN /\ s' = s1
          /\ pc' = "loop"
          /\ UNCHANGED <<next_pid, proc, head, tail>>
     ELSE \E spin \in {StartsWithSpin(cmd, s1)} :
          \E r \in {IF spin THEN ParseInt(cmd, SkipWs(cmd, s1 + 4), 0)
                            ELSE [ms |-> 0, s |-> s1]} :
          \E s4 \in {SkipToSemi(cmd, r.s)} :
             /\ s' = IF CharAt(cmd, s4) = ";" THEN s4 + 1 ELSE s4
             /\ pc' = "userinit"
             /\ IF spin /\ r.ms > 0
                THEN /\ SetHeap(o1_new_proc(Heap, next_pid, "spin", r.ms))
                     /\ next_pid' = next_pid + 1
                ELSE UNCHANGED <<next_pid, proc, head, tail>>
  /\ UNCHANGED <<cmd, p, qid, idle, ticks, out>>

\* userinit_spin returns; main sets idle_ticks = 0 and total_ticks = 0.
O1UserinitReturn ==
  /\ pc = "userinit"
  /\ CharAt(cmd, s) = NUL
  /\ pc' = "loop"
  /\ idle' = 0
  /\ ticks' = 0
  /\ UNCHANGED <<cmd, s, next_pid, proc, head, tail, p, qid, out>>

\* One iteration of main's while(1), with the calls it makes.
O1MainLoop ==
  /\ pc = "loop"
  /\ IF ticks > TickCap
     THEN /\ pc' = "done"
          /\ UNCHANGED <<proc, head, tail, idle, ticks, out>>
     ELSE IF o1_AllEmpty(Heap)
     THEN /\ idle' = idle + 1
          /\ ticks' = ticks + 1
          /\ IF idle + 1 > IdleLimit
             THEN pc' = "done" /\ out' = out
             ELSE pc' = "loop" /\ out' = Append(out, IdleLine)
          /\ UNCHANGED <<proc, head, tail>>
     ELSE /\ idle' = 0
          /\ ticks' = ticks + 1
          /\ SetHeap(o1_schedule_one_tick(maybe_swap_queues(Heap)))
          /\ pc' = "loop"
          /\ out' = out
  /\ UNCHANGED <<cmd, s, next_pid, p, qid>>

NextO1 ==
  \/ O1UserinitSpin
  \/ O1UserinitReturn
  \/ O1MainLoop

SpecO1 == InitO1 /\ [][NextO1]_vars

\* The skeleton is a single sequential thread: it always takes its next step.
FairSpecO1 == SpecO1 /\ WF_vars(NextO1)

(* C20 - The O(1) skeleton as shipped. *)

\* FQ, AQ and EQ are empty, and the trace holds idle lines only, at most 10.
C20_StubInv ==
  /\ \A q \in O1Queues : head[q] = NULL /\ tail[q] = NULL
  /\ Len(out) <= 10
  /\ \A i \in 1..Len(out) : out[i] = IdleTraceLine
  /\ pc = "done" => (Len(out) = 10 /\ idle > 10 /\ ticks <= TickCap)

\* C20: with q_push and q_pop stubs the three queues stay empty for every
\* command string, no run or EXIT line is ever printed, and the run prints
\* exactly 10 idle lines and then ends by idle quiescence.
C20_SkeletonAsShipped == []C20_StubInv /\ <>(pc = "done")

\* The default command line: three processes were created and lost, and the
\* run has ended after its 10 idle lines.
C20_Witness ==
  /\ cmd = DefaultCmdline
  /\ pc = "done"
  /\ DOMAIN proc = {1, 2, 3}
  /\ Len(out) = 10

====
